---- MODULE Spec2Model ----
(***************************************************************************)
(* Model of data/convert.js: a top-level ES-module script that reads the   *)
(* TopoJSON document ./data/swiss_stuffes.json, and for every entry of     *)
(* Object.entries(input.objects) decodes it with topojson.feature and      *)
(* writes JSON.stringify(geojson, null, 2) to ./data/<key>.geojson.        *)
(*                                                                         *)
(* Text (paths, keys) is a sequence of one-character strings, so that the  *)
(* template literal of line 10 is a real concatenation.  JavaScript values *)
(* are records [t, n, s, items]; file contents are records [kind, doc,     *)
(* text].                                                                  *)
(***************************************************************************)
EXTENDS Integers, Sequences, FiniteSets, TLC

\* ------------------------------------------------------------------ bounds
\* The largest number of members written in the "objects" mapping of the
\* input document.
MaxKeys == 2
\* The largest number of times the script is run in a row.
MaxRuns == 2

\* ------------------------------------------------------------ text helpers
Last(s) == s[Len(s)]
Front(s) == SubSeq(s, 1, Len(s) - 1)

RECURSIVE Reverse(_)
Reverse(s) == IF s = <<>> THEN <<>> ELSE Append(Reverse(Tail(s)), Head(s))

\* s ends with the text suf.
EndsWith(s, suf) ==
    /\ Len(s) >= Len(suf)
    /\ SubSeq(s, Len(s) - Len(suf) + 1, Len(s)) = suf

\* ------------------------------------------------------------------- paths
\* './data/swiss_stuffes.json', the literal of line 5.
InputPath ==
    <<".", "/", "d", "a", "t", "a", "/",
      "s", "w", "i", "s", "s", "_", "s", "t", "u", "f", "f", "e", "s",
      ".", "j", "s", "o", "n">>

\* './data/', the literal head of the template of line 10.
DataDir == <<".", "/", "d", "a", "t", "a", "/">>

\* '.geojson', the literal tail of the template of line 10.
Suffix == <<".", "g", "e", "o", "j", "s", "o", "n">>

\* The template with the extension of the input file for suffix.
OutputPath_jsonSuffix(key) == DataDir \o key \o <<".", "j", "s", "o", "n">>

\* The template without its directory.
OutputPath_keyOnly(key) == key \o Suffix

\* `./data/${key}.geojson` (line 10).
OutputPath(key) == DataDir \o key \o Suffix

\* The components of a path, split at "/".
RECURSIVE Components(_, _, _)
Components(path, cur, acc) ==
    IF path = <<>> THEN Append(acc, cur)
    ELSE IF Head(path) = "/" THEN Components(Tail(path), <<>>, Append(acc, cur))
    ELSE Components(Tail(path), Append(cur, Head(path)), acc)

\* Pathname resolution of a relative path by the operating system, as
\* fs.readFile and fs.writeFile hand the path to open(2): empty and "."
\* components name the directory itself, ".." names the parent.  The result
\* identifies the file: two paths name the same file iff they resolve alike
\* (no symbolic links, a case-sensitive file system).
RECURSIVE ResolveComponents(_, _)
ResolveComponents(cs, acc) ==
    IF cs = <<>> THEN acc
    ELSE LET c == Head(cs) IN
         IF c = <<>> \/ c = <<".">> THEN ResolveComponents(Tail(cs), acc)
         ELSE IF c = <<".", ".">> /\ acc # <<>> /\ Last(acc) # <<".", ".">>
              THEN ResolveComponents(Tail(cs), Front(acc))
         ELSE ResolveComponents(Tail(cs), Append(acc, c))

Resolve(path) == ResolveComponents(Components(path, <<>>, <<>>), <<>>)

\* --------------------------------------------------------- JavaScript values
\* A value is a number, a string, null, an array or an object; the items of
\* an array and the members of an object are [k, val] in their own order (k
\* is "" in an array).
Num(n) == [t |-> "num", n |-> n, s |-> "", items |-> <<>>]
Str(s) == [t |-> "str", n |-> 0, s |-> s, items |-> <<>>]
Null == [t |-> "null", n |-> 0, s |-> "", items |-> <<>>]
Item(k, v) == [k |-> k, val |-> v]
Arr(vs) == [t |-> "arr", n |-> 0, s |-> "",
            items |-> [j \in 1..Len(vs) |-> Item("", vs[j])]]
Obj(ms) == [t |-> "obj", n |-> 0, s |-> "", items |-> ms]

\* One line of text: its indentation in spaces and its tokens.
Line(indent, toks) == [indent |-> indent, toks |-> toks]

\* The lines with the tokens pre put in front of the first line.
Prefixed(pre, lines) ==
    <<Line(lines[1].indent, pre \o lines[1].toks)>> \o Tail(lines)

\* The lines with a "," ending the last line when more is to follow.
Separated(lines, more) ==
    IF more THEN Append(Front(lines), Line(Last(lines).indent, Append(Last(lines).toks, ",")))
    ELSE lines

\* JSON.stringify(value, null, gap) (line 10, gap = 2): the text of value at
\* indentation indent.  A number, string or null is one line; an empty array
\* or object is "[]" or "{}"; otherwise an opening bracket, each item on
\* lines of its own indented by gap more and separated by ",", and the
\* closing bracket at the indentation of the opening one.
RECURSIVE SerializeJSONProperty(_, _, _)
RECURSIVE SerializeItems(_, _, _, _)
SerializeItems(items, isObj, indent, gap) ==
    IF items = <<>> THEN <<>>
    ELSE LET it == Head(items)
             body == SerializeJSONProperty(it.val, indent, gap)
             keyed == IF isObj THEN Prefixed(<<"\"", it.k, "\"", ":", " ">>, body)
                      ELSE body
         IN Separated(keyed, Tail(items) # <<>>)
                \o SerializeItems(Tail(items), isObj, indent, gap)

SerializeJSONProperty(v, indent, gap) ==
    CASE v.t = "num" -> <<Line(indent, <<ToString(v.n)>>)>>
      [] v.t = "str" -> <<Line(indent, <<"\"", v.s, "\"">>)>>
      [] v.t = "null" -> <<Line(indent, <<"null">>)>>
      [] v.t = "arr" ->
            IF v.items = <<>> THEN <<Line(indent, <<"[]">>)>>
            ELSE <<Line(indent, <<"[">>)>>
                    \o SerializeItems(v.items, FALSE, indent + gap, gap)
                    \o <<Line(indent, <<"]">>)>>
      [] v.t = "obj" ->
            IF v.items = <<>> THEN <<Line(indent, <<"{}">>)>>
            ELSE <<Line(indent, <<"{">>)>>
                    \o SerializeItems(v.items, TRUE, indent + gap, gap)
                    \o <<Line(indent, <<"}">>)>>

\* JSON.stringify(geojson, null, 2), the second argument of line 10.
JSONstringify(value) == SerializeJSONProperty(value, 0, 2)

\* ------------------------------------------------------- TopoJSON documents
\* A geometry object of a topology: type, and by type the position
\* ("Point": coordinates), the arc indexes ("LineString": arcs; "Polygon":
\* rings, one sequence of arc indexes per ring) or the member geometries
\* ("GeometryCollection": geometries).  No object of the model carries an id,
\* a bbox or properties.
Geometry(type, coordinates, arcs, rings, geometries) ==
    [type |-> type, coordinates |-> coordinates, arcs |-> arcs,
     rings |-> rings, geometries |-> geometries]

\* The object mapping as JSON.parse builds it from the members of the
\* document in their written order: a key keeps the position of its first
\* occurrence (order) and the value of its last (val).
RECURSIVE CreationOrder(_, _)
CreationOrder(members, acc) ==
    IF members = <<>> THEN acc
    ELSE LET k == Head(members).key IN
         CreationOrder(Tail(members),
                       IF \E j \in 1..Len(acc) : acc[j] = k THEN acc ELSE Append(acc, k))

LastValue(members, k) ==
    LET js == {j \in 1..Len(members) : members[j].key = k}
        last == CHOOSE j \in js : \A l \in js : l <= j
    IN members[last].o

\* JSON.parse of the text of a topology document (line 5).
JSONparse(doc) ==
    [hasObjects |-> doc.hasObjects,
     transform |-> doc.transform,
     arcs |-> doc.arcs,
     objects |-> [order |-> CreationOrder(doc.members, <<>>),
                  val |-> [k \in {doc.members[j].key : j \in 1..Len(doc.members)}
                              |-> LastValue(doc.members, k)]]]

\* The value of the variable input before line 5 has run.
NoInput ==
    [hasObjects |-> FALSE,
     transform |-> [on |-> FALSE, scale |-> <<1, 1>>, translate |-> <<0, 0>>],
     arcs |-> <<>>,
     objects |-> [order |-> <<>>, val |-> <<>>]]

\* ------------------------------------------------- Object.entries (line 8)
Digits == {"0", "1", "2", "3", "4", "5", "6", "7", "8", "9"}

DigitValue(c) ==
    CASE c = "0" -> 0 [] c = "1" -> 1 [] c = "2" -> 2 [] c = "3" -> 3
      [] c = "4" -> 4 [] c = "5" -> 5 [] c = "6" -> 6 [] c = "7" -> 7
      [] c = "8" -> 8 [] c = "9" -> 9

RECURSIVE NumericValue(_, _)
NumericValue(k, acc) ==
    IF k = <<>> THEN acc ELSE NumericValue(Tail(k), 10 * acc + DigitValue(Head(k)))

\* A property key is an array index when it is the canonical decimal text of
\* an integer from 0 to 2^32 - 2; the keys of the model have at most nine
\* digits, all below that limit.
IsArrayIndex(k) ==
    /\ k # <<>>
    /\ Len(k) <= 9
    /\ \A j \in 1..Len(k) : k[j] \in Digits
    /\ Len(k) = 1 \/ k[1] # "0"

\* The keys of ks that are array indexes, in ascending numeric order.
RECURSIVE Ascending(_)
Ascending(ks) ==
    IF ks = {} THEN <<>>
    ELSE LET least == CHOOSE k \in ks :
                          \A l \in ks : NumericValue(k, 0) <= NumericValue(l, 0)
         IN <<least>> \o Ascending(ks \ {least})

\* The keys in the order the members were created, array indexes or not.
OwnKeys_creationOrder(obj) == obj.order

\* The own property keys of an object in the order Object.entries lists them:
\* the array indexes in ascending numeric order, then the other keys in the
\* order of their creation.
OwnKeys(obj) ==
    Ascending({k \in DOMAIN obj.val : IsArrayIndex(k)})
        \o SelectSeq(obj.order, LAMBDA k : ~IsArrayIndex(k))

\* -------------------------------------------------- topojson.feature (line 9)
\* The running sums of the positions of arc a up to position k.
RECURSIVE SumX(_, _)
SumX(a, k) == IF k = 0 THEN 0 ELSE SumX(a, k - 1) + a[k][1]
RECURSIVE SumY(_, _)
SumY(a, k) == IF k = 0 THEN 0 ELSE SumY(a, k - 1) + a[k][2]

\* The positions of an arc: as stored when the topology has no transform,
\* else the running sum of the stored deltas, scaled and translated.
DecodeArc(topology, a) ==
    IF ~topology.transform.on THEN a
    ELSE LET tr == topology.transform IN
         [k \in 1..Len(a) |->
            <<SumX(a, k) * tr.scale[1] + tr.translate[1],
              SumY(a, k) * tr.scale[2] + tr.translate[2]>>]

\* A position of a Point geometry.
DecodePoint(topology, p) ==
    IF ~topology.transform.on THEN p
    ELSE LET tr == topology.transform IN
         <<p[1] * tr.scale[1] + tr.translate[1], p[2] * tr.scale[2] + tr.translate[2]>>

\* The arc an index names: i names arc i, a negative i names arc ~i reversed.
ArcNumber(i) == IF i < 0 THEN -i - 1 ELSE i

\* arc(i, points): drop the last point collected so far, which the arc
\* repeats, and append the positions of the arc.
RECURSIVE DecodeLine(_, _, _)
DecodeLine(topology, arcs, points) ==
    IF arcs = <<>> THEN points
    ELSE LET i == Head(arcs)
             dec == DecodeArc(topology, topology.arcs[ArcNumber(i) + 1])
             kept == IF points # <<>> THEN Front(points) ELSE points
         IN DecodeLine(topology, Tail(arcs),
                       kept \o (IF i < 0 THEN Reverse(dec) ELSE dec))

\* line(arcs): a line of fewer than two points repeats its first.
Line2(points) == IF Len(points) = 1 THEN Append(points, points[1]) ELSE points

\* ring(arcs): a ring of fewer than four points repeats its first.
RECURSIVE Ring4(_)
Ring4(points) ==
    IF Len(points) >= 4 \/ points = <<>> THEN points
    ELSE Ring4(Append(points, points[1]))

PositionValue(p) == Arr(<<Num(p[1]), Num(p[2])>>)
PositionsValue(ps) == Arr([k \in 1..Len(ps) |-> PositionValue(ps[k])])

\* geometry(o): the GeoJSON geometry of a topology geometry; null for a type
\* that is none of the geometry types.
GeometryValue(topology, o) ==
    CASE o.type = "Point" ->
            Obj(<<Item("type", Str(o.type)),
                  Item("coordinates", PositionValue(DecodePoint(topology, o.coordinates)))>>)
      [] o.type = "LineString" ->
            Obj(<<Item("type", Str(o.type)),
                  Item("coordinates",
                       PositionsValue(Line2(DecodeLine(topology, o.arcs, <<>>))))>>)
      [] o.type = "Polygon" ->
            Obj(<<Item("type", Str(o.type)),
                  Item("coordinates",
                       Arr([r \in 1..Len(o.rings) |->
                              PositionsValue(
                                  Ring4(Line2(DecodeLine(topology, o.rings[r], <<>>))))]))>>)
      [] OTHER -> Null

\* feature(topology, o) for one geometry: {type, properties, geometry}.
FeatureValue(topology, o) ==
    Obj(<<Item("type", Str("Feature")),
          Item("properties", Obj(<<>>)),
          Item("geometry", GeometryValue(topology, o))>>)

\* topojson.feature(topology, o): a FeatureCollection of the features of the
\* geometries of a GeometryCollection, else the feature of the geometry.
feature(topology, o) ==
    IF o.type = "GeometryCollection"
    THEN Obj(<<Item("type", Str("FeatureCollection")),
               Item("features",
                    Arr([g \in 1..Len(o.geometries) |->
                           FeatureValue(topology, o.geometries[g])]))>>)
    ELSE FeatureValue(topology, o)

\* The arc indexes a geometry uses.
ArcIndexes(o) ==
    {o.arcs[j] : j \in 1..Len(o.arcs)}
        \cup UNION {{o.rings[r][j] : j \in 1..Len(o.rings[r])} : r \in 1..Len(o.rings)}

\* topojson.feature throws (a TypeError reading the length of an arc that is
\* not there) when a geometry names an arc the topology does not have.
featureThrows(topology, o) ==
    \E i \in ArcIndexes(o) \cup UNION {ArcIndexes(o.geometries[g]) : g \in 1..Len(o.geometries)} :
        ArcNumber(i) + 1 > Len(topology.arcs)

\* ------------------------------------------------------------ file contents
EmptyDoc ==
    [hasObjects |-> FALSE,
     transform |-> [on |-> FALSE, scale |-> <<1, 1>>, translate |-> <<0, 0>>],
     arcs |-> <<>>,
     members |-> <<>>]

\* A file holding the text of a topology document, one that holds text that
\* is no JSON, and one holding the given lines.
TopoFile(doc) == [kind |-> "topology", doc |-> doc, text |-> <<>>]
Garbage == [kind |-> "garbage", doc |-> EmptyDoc, text |-> <<>>]
TextFile(lines) == [kind |-> "text", doc |-> EmptyDoc, text |-> lines]
Stale == TextFile(<<Line(0, <<"stale">>)>>)

\* The file system f with the file at p holding c.
Put(f, p, c) == [q \in DOMAIN f \cup {p} |-> IF q = p THEN c ELSE f[q]]

\* ------------------------------------------------------- the inputs explored
\* The keys "2", "./2", "10" and "swiss_stuffes".
KeyPool ==
    { <<"2">>, <<".", "/", "2">>, <<"1", "0">>,
      <<"s", "w", "i", "s", "s", "_", "s", "t", "u", "f", "f", "e", "s">> }

\* Absolute positions, or deltas under the transform: arc 0 is a closed ring
\* of four positions under the transform, arc 1 has two positions.
ArcTable ==
    << << <<0, 0>>, <<2, 0>>, <<0, 2>>, <<-2, -2>> >>,
       << <<1, 1>>, <<1, 0>> >> >>

\* No transform (transform == null), and a scale and a translation.
NoTransform == [on |-> FALSE, scale |-> <<1, 1>>, translate |-> <<0, 0>>]
Quantized == [on |-> TRUE, scale |-> <<2, 3>>, translate |-> <<1, -1>>]

\* A polygon of one ring; a collection of a point, a reversed line, a polygon
\* whose ring has two positions and a geometry of no known type; a line over
\* an arc the topology does not have.
EntryPool ==
    { Geometry("Polygon", <<0, 0>>, <<>>, << <<0>> >>, <<>>),
      Geometry("GeometryCollection", <<0, 0>>, <<>>, <<>>,
               << Geometry("Point", <<3, 4>>, <<>>, <<>>, <<>>),
                  Geometry("LineString", <<0, 0>>, <<-2>>, <<>>, <<>>),
                  Geometry("Polygon", <<0, 0>>, <<>>, << <<1>> >>, <<>>),
                  Geometry("Unknown", <<0, 0>>, <<>>, <<>>, <<>>) >>),
      Geometry("LineString", <<0, 0>>, <<0, 5>>, <<>>, <<>>) }

MemberPool == {[key |-> k, o |-> o] : k \in KeyPool, o \in EntryPool}

\* The documents: every sequence of at most MaxKeys members, a key possibly
\* written twice, with and without a transform, and the documents that have
\* no "objects".
Documents ==
    {[hasObjects |-> TRUE, transform |-> tr, arcs |-> ArcTable, members |-> ms] :
        tr \in {NoTransform, Quantized},
        ms \in UNION {[1..n -> MemberPool] : n \in 0..MaxKeys}}
    \cup {[hasObjects |-> FALSE, transform |-> tr, arcs |-> ArcTable, members |-> <<>>] :
            tr \in {NoTransform, Quantized}}

InputFiles ==
    {<<>>, Resolve(InputPath) :> Garbage}
        \cup {Resolve(InputPath) :> TopoFile(d) : d \in Documents}

OutputFiles == {<<>>, [p \in {Resolve(OutputPath(k)) : k \in KeyPool} |-> Stale]}

\* -------------------------------------------------------------------- state
VARIABLES
    files,       \* the file system: resolved path -> content of the file there
    input,       \* the constant input of line 5
    entries,     \* the keys of the array Object.entries returned (line 8)
    idx,         \* the position in entries the loop is at
    geojson,     \* the constant geojson of line 9
    pending,     \* the fs.writeFile calls that have not settled
    pc,          \* where the script is
    failedAt,    \* the step that threw, "" while none has
    log,         \* the operations of this run, in order
    run,         \* the number of this run
    startFiles,  \* the file system when this run started
    prevFiles    \* the file system when the run before ended

vars == <<files, input, entries, idx, geojson, pending, pc, failedAt, log, run,
          startFiles, prevFiles>>

\* An operation of the run: its kind, the key it is for and the path it names.
Event(op, key, path) == [op |-> op, key |-> key, path |-> path]

Init ==
    /\ \E inp \in InputFiles, out \in OutputFiles : files = inp @@ out
    /\ input = NoInput
    /\ entries = <<>>
    /\ idx = 0
    /\ geojson = Null
    /\ pending = {}
    /\ pc = "load"
    /\ failedAt = ""
    /\ log = <<>>
    /\ run = 1
    /\ startFiles = files
    /\ prevFiles = files

\* Line 5 with the failure caught: the script goes on with a document of no
\* objects.
Load_caught ==
    /\ pc = "load"
    /\ LET p == Resolve(InputPath) IN
       \/ /\ p \in DOMAIN files
          /\ files[p].kind = "topology"
          /\ input' = JSONparse(files[p].doc)
       \/ /\ p \notin DOMAIN files \/ files[p].kind # "topology"
          /\ input' = [NoInput EXCEPT !.hasObjects = TRUE]
    /\ log' = Append(log, Event("load", <<>>, InputPath))
    /\ pc' = "entries"
    /\ UNCHANGED <<files, entries, idx, geojson, pending, failedAt, run, startFiles,
                   prevFiles>>

\* Line 5: await fs.readFile(...) then JSON.parse.  The read throws when the
\* file is not there or cannot be read (which may happen to any file), the
\* parse when the text is no JSON; nothing catches either.
Load ==
    /\ pc = "load"
    /\ LET p == Resolve(InputPath) IN
       \/ /\ p \in DOMAIN files
          /\ files[p].kind = "topology"
          /\ input' = JSONparse(files[p].doc)
          /\ log' = Append(log, Event("load", <<>>, InputPath))
          /\ pc' = "entries"
          /\ UNCHANGED failedAt
       \/ /\ pc' = "failed"
          /\ failedAt' = "load"
          /\ UNCHANGED <<input, log>>
    /\ UNCHANGED <<files, entries, idx, geojson, pending, run, startFiles,
                   prevFiles>>

\* Line 8, the head of the loop: Object.entries(input.objects) throws a
\* TypeError when the document has no "objects".
ObjectEntries ==
    /\ pc = "entries"
    /\ IF input.hasObjects
       THEN /\ entries' = OwnKeys(input.objects)
            /\ idx' = 0
            /\ pc' = "next"
            /\ UNCHANGED failedAt
       ELSE /\ pc' = "failed"
            /\ failedAt' = "entries"
            /\ UNCHANGED <<entries, idx>>
    /\ UNCHANGED <<files, input, geojson, pending, log, run, startFiles,
                   prevFiles>>

\* The iterator going one entry past the end.
ForNext_offByOne ==
    /\ pc = "next"
    /\ IF idx <= Len(entries)
       THEN idx' = idx + 1 /\ pc' = "decode"
       ELSE idx' = idx /\ pc' = "done"
    /\ UNCHANGED <<files, input, entries, geojson, pending, failedAt, log, run,
                   startFiles, prevFiles>>

\* Line 8, one step of the iterator: the next entry, or the end of the script.
ForNext ==
    /\ pc = "next"
    /\ IF idx < Len(entries)
       THEN idx' = idx + 1 /\ pc' = "decode"
       ELSE idx' = idx /\ pc' = "done"
    /\ UNCHANGED <<files, input, entries, geojson, pending, failedAt, log, run,
                   startFiles, prevFiles>>

\* Line 9 decoding the first object of the mapping for every key.
Decode_firstObject ==
    /\ pc = "decode"
    /\ LET key == entries[idx]
           o == input.objects.val[entries[1]]
       IN /\ log' = Append(log, Event("decode", key, <<>>))
          /\ IF featureThrows(input, o)
             THEN pc' = "failed" /\ failedAt' = "decode" /\ UNCHANGED geojson
             ELSE geojson' = feature(input, o) /\ pc' = "write" /\ UNCHANGED failedAt
    /\ UNCHANGED <<files, input, entries, idx, pending, run, startFiles,
                   prevFiles>>

\* Line 9: const geojson = topojson.feature(input, input.objects[key]).
Decode ==
    /\ pc = "decode"
    /\ LET key == entries[idx]
           o == input.objects.val[key]
       IN /\ log' = Append(log, Event("decode", key, <<>>))
          /\ IF featureThrows(input, o)
             THEN pc' = "failed" /\ failedAt' = "decode" /\ UNCHANGED geojson
             ELSE geojson' = feature(input, o) /\ pc' = "write" /\ UNCHANGED failedAt
    /\ UNCHANGED <<files, input, entries, idx, pending, run, startFiles,
                   prevFiles>>

\* Line 10 without the await: the loop goes on while the write is in flight.
WriteFile_notAwaited ==
    /\ pc = "write"
    /\ LET key == entries[idx] IN
       /\ pending' = pending \cup
             {[key |-> key, path |-> OutputPath(key), data |-> JSONstringify(geojson)]}
       /\ log' = Append(log, Event("write", key, OutputPath(key)))
    /\ pc' = "next"
    /\ UNCHANGED <<files, input, entries, idx, geojson, failedAt, run, startFiles,
                   prevFiles>>

\* Line 10, the call: fs.writeFile(path, JSON.stringify(geojson, null, 2)) is
\* issued and the script awaits it.
WriteFile ==
    /\ pc = "write"
    /\ LET key == entries[idx] IN
       /\ pending' = pending \cup
             {[key |-> key, path |-> OutputPath(key), data |-> JSONstringify(geojson)]}
       /\ log' = Append(log, Event("write", key, OutputPath(key)))
    /\ pc' = "await"
    /\ UNCHANGED <<files, input, entries, idx, geojson, failedAt, run, startFiles,
                   prevFiles>>

\* The file system f with the lines added to the end of the file at p.
Appended(f, p, lines) ==
    Put(f, p, TextFile((IF p \in DOMAIN f THEN f[p].text ELSE <<>>) \o lines))

\* Line 10 with the file opened with flag 'a': the data is added to the file.
WriteSettles_append ==
    /\ pc = "await"
    /\ \E w \in pending :
          /\ pending' = pending \ {w}
          /\ \/ /\ files' = Appended(files, Resolve(w.path), w.data)
                /\ log' = Append(log, Event("written", w.key, w.path))
                /\ pc' = "next"
                /\ UNCHANGED failedAt
             \/ /\ pc' = "failed"
                /\ failedAt' = "write"
                /\ UNCHANGED <<files, log>>
    /\ UNCHANGED <<input, entries, idx, geojson, run, startFiles, prevFiles>>

\* Line 10, the await: the write settles.  fs.writeFile opens the file with
\* flag 'w' (create, truncate) and writes the data.  It fulfils with the file
\* holding the data; it rejects with the file untouched when the open fails,
\* or with the file empty when the write fails after the open.
WriteSettles ==
    /\ pc = "await"
    /\ \E w \in pending :
          /\ pending' = pending \ {w}
          /\ \/ /\ files' = Put(files, Resolve(w.path), TextFile(w.data))
                /\ log' = Append(log, Event("written", w.key, w.path))
                /\ pc' = "next"
                /\ UNCHANGED failedAt
             \/ /\ pc' = "failed"
                /\ failedAt' = "write"
                /\ UNCHANGED <<files, log>>
             \/ /\ files' = Put(files, Resolve(w.path), TextFile(<<>>))
                /\ pc' = "failed"
                /\ failedAt' = "write"
                /\ UNCHANGED log
    /\ UNCHANGED <<input, entries, idx, geojson, run, startFiles, prevFiles>>

\* The script, having completed, is run again in a new process on the files
\* the run left.
Rerun ==
    /\ pc = "done"
    /\ run < MaxRuns
    /\ run' = run + 1
    /\ prevFiles' = files
    /\ startFiles' = files
    /\ input' = NoInput
    /\ entries' = <<>>
    /\ idx' = 0
    /\ geojson' = Null
    /\ pending' = {}
    /\ pc' = "load"
    /\ failedAt' = ""
    /\ log' = <<>>
    /\ UNCHANGED files

Next ==
    \/ Load
    \/ ObjectEntries
    \/ ForNext
    \/ Decode
    \/ WriteFile
    \/ WriteSettles
    \/ Rerun

Spec == Init /\ [][Next]_vars

\* ------------------------------------------------------------ observations
\* The keys whose write completed in this run, in the order of completion.
RECURSIVE KeysOf(_)
KeysOf(evs) == IF evs = <<>> THEN <<>> ELSE <<Head(evs).key>> \o KeysOf(Tail(evs))
WrittenKeys == KeysOf(SelectSeq(log, LAMBDA e : e.op = "written"))

\* The files this run has written.
WrittenFiles == {Resolve(log[j].path) : j \in {l \in 1..Len(log) : log[l].op = "written"}}

\* The writes this run has issued.
IssuedWrites == {j \in 1..Len(log) : log[j].op \in {"write", "written"}}

\* The write of the key at idx has just completed.
JustWritten == pc = "next" /\ log # <<>> /\ Last(log).op = "written"

\* The input file on disk and the document in it.
InputFile == Resolve(InputPath)
InputIsTopology(f) == InputFile \in DOMAIN f /\ f[InputFile].kind = "topology"

\* The text this run serializes for key k.
Serialized(k) == JSONstringify(feature(input, input.objects.val[k]))

\* The document with every object but that of key k taken out.
Standalone(k) ==
    [input EXCEPT !.objects = [order |-> <<k>>, val |-> [j \in {k} |-> input.objects.val[k]]]]

\* The value of the member "type" at the top of a serialized object.
TopType(text) == text[2].toks[7]

\* The position of the first member of the input document with key k.
FirstPosition(k) ==
    LET ms == startFiles[InputFile].doc.members
    IN CHOOSE j \in 1..Len(ms) : ms[j].key = k /\ \A l \in 1..(j - 1) : ms[l].key # k

\* ------------------------------------------------------------------ claims

\* C1: a run that completes without failure on a document whose object
\* mapping has N keys leaves exactly N output files written by that run, one
\* per key, no two keys sharing a file.
C1_OneFilePerKey ==
    pc = "done" => Cardinality(WrittenFiles) = Cardinality(DOMAIN input.objects.val)

\* C2: when the decode or the write of the key at position i fails the run
\* ends there: nothing was attempted for a later key, nothing is in flight,
\* and for every key before position i the file at its path holds what this
\* run last wrote there.
C2_FailureKeepsEarlierOutputs ==
    (pc = "failed" /\ failedAt \in {"decode", "write"}) =>
        /\ pending = {}
        /\ \A j \in 1..Len(log) :
              log[j].op # "load" => \E p \in 1..idx : entries[p] = log[j].key
        /\ \A p \in 1..(idx - 1) :
              LET f == Resolve(OutputPath(entries[p]))
                  same == {q \in 1..(idx - 1) : Resolve(OutputPath(entries[q])) = f}
                  last == CHOOSE q \in same : \A r \in same : r <= q
              IN f \in DOMAIN files /\ files[f] = TextFile(Serialized(entries[last]))

\* C3: when the input file is missing, or is no topology document, or the
\* load threw, the run is at the load or has failed there, it has issued no
\* write and the file system is as it was when the run started.
C3_FailedLoadWritesNothing ==
    (~InputIsTopology(startFiles) \/ failedAt = "load") =>
        /\ pc \in {"load", "failed"}
        /\ pc = "failed" => failedAt = "load"
        /\ pc = "load" => ENABLED Load
        /\ IssuedWrites = {}
        /\ pending = {}
        /\ files = startFiles

C3_Witness ==
    /\ pc = "failed"
    /\ failedAt = "load"
    /\ InputFile \notin DOMAIN startFiles
    /\ startFiles # <<>>

\* C4: when the document has parsed and its object mapping is empty, the run
\* cannot fail or decode or write: it goes on to its end, where it has issued
\* no write and the file system is as it was when the run started.
C4_EmptyMappingSucceeds ==
    (/\ log # <<>>
     /\ startFiles[InputFile].doc.hasObjects
     /\ startFiles[InputFile].doc.members = <<>>) =>
        /\ pc \in {"entries", "next", "done"}
        /\ pc = "entries" => ENABLED ObjectEntries
        /\ pc = "next" => ENABLED ForNext
        /\ entries = <<>>
        /\ IssuedWrites = {}
        /\ pending = {}
        /\ files = startFiles

C4_Witness ==
    /\ pc = "done"
    /\ log # <<>>
    /\ startFiles[InputFile].doc.hasObjects
    /\ startFiles[InputFile].doc.members = <<>>
    /\ DOMAIN startFiles # {InputFile}

\* C5: a run that completes after a completed run on the same input leaves
\* every file with the content it had when the run before ended.
C5_RerunIsIdentical ==
    (run >= 2 /\ pc = "done") => files = prevFiles

C5_Witness ==
    /\ run >= 2
    /\ pc = "done"
    /\ Len(WrittenKeys) >= 2
    /\ Cardinality(WrittenFiles) = 1

C7_PathAndOverwrite ==
    /\ \A w \in pending :
          /\ w.key = entries[idx]
          /\ w.path = <<".", "/", "d", "a", "t", "a", "/">> \o w.key
                         \o <<".", "g", "e", "o", "j", "s", "o", "n">>
    /\ JustWritten =>
          /\ Last(log).key = entries[idx]
          /\ Last(log).path = <<".", "/", "d", "a", "t", "a", "/">> \o entries[idx]
                                 \o <<".", "g", "e", "o", "j", "s", "o", "n">>
          /\ Resolve(Last(log).path) \in DOMAIN files
          /\ files[Resolve(Last(log).path)] = TextFile(JSONstringify(geojson))

C7_Witness ==
    /\ JustWritten
    /\ Resolve(Last(log).path) \in DOMAIN startFiles
    /\ startFiles[Resolve(Last(log).path)] = Stale
    /\ files[Resolve(Last(log).path)] # Stale

\* C8: the operations of a run are in order: the load comes first, a decode
\* follows the load or a completed write, a write is issued right after the
\* decode of its key and completes before anything else happens; at most one
\* write is in flight, and only while the script awaits it.
C8_StrictOrder ==
    /\ Cardinality(pending) <= 1
    /\ pending # {} => pc = "await"
    /\ pc \in {"entries", "next", "decode", "write", "await", "done"} => log # <<>>
    /\ \A j \in 1..Len(log) :
          /\ (log[j].op = "load") = (j = 1)
          /\ log[j].op = "decode" => log[j - 1].op \in {"load", "written"}
          /\ log[j].op = "write" =>
                log[j - 1].op = "decode" /\ log[j - 1].key = log[j].key
          /\ log[j].op = "written" =>
                log[j - 1].op = "write" /\ log[j - 1].key = log[j].key

C8_Witness ==
    /\ pc = "await"
    /\ idx = 2
    /\ Cardinality(pending) = 1
    /\ Len(WrittenKeys) = 1

\* C9 as stated: the keys are processed in the order in which they appear in
\* the input document, array-index keys included.
C9_InsertionOrder ==
    pc = "done" => WrittenKeys = input.objects.order

\* C9 as amended: every key of the mapping is processed once; the keys that
\* are canonical array indexes come first, in ascending numeric order, and
\* the other keys follow in the order in which they first appear in the
\* input document.
C9_IndexKeysFirst ==
    pc = "done" =>
        LET ks == WrittenKeys
            ms == startFiles[InputFile].doc.members
        IN /\ {ks[p] : p \in 1..Len(ks)} = {ms[j].key : j \in 1..Len(ms)}
           /\ \A p, q \in 1..Len(ks) :
                 p < q =>
                    /\ ks[p] # ks[q]
                    /\ IsArrayIndex(ks[q]) =>
                          /\ IsArrayIndex(ks[p])
                          /\ NumericValue(ks[p], 0) < NumericValue(ks[q], 0)
                    /\ ~IsArrayIndex(ks[p]) =>
                          FirstPosition(ks[p]) < FirstPosition(ks[q])

C9_Witness ==
    /\ pc = "done"
    /\ Len(WrittenKeys) = 2
    /\ WrittenKeys # input.objects.order
    /\ \A p \in 1..2 : IsArrayIndex(WrittenKeys[p])

\* C10: no write names or reaches the input file, every path written ends in
\* '.geojson', the input file is as it was when the run started, and from the
\* load on the document in memory is the one parsed from it, loaded once.
C10_InputUntouched ==
    /\ \A j \in IssuedWrites :
          EndsWith(log[j].path, Suffix) /\ Resolve(log[j].path) # InputFile
    /\ \A w \in pending : EndsWith(w.path, Suffix) /\ Resolve(w.path) # InputFile
    /\ (InputFile \in DOMAIN files) = (InputFile \in DOMAIN startFiles)
    /\ InputFile \in DOMAIN files => files[InputFile] = startFiles[InputFile]
    /\ log # <<>> =>
          /\ InputIsTopology(startFiles)
          /\ input = JSONparse(startFiles[InputFile].doc)
          /\ Cardinality({j \in 1..Len(log) : log[j].op = "load"}) = 1

C10_Witness ==
    /\ JustWritten
    /\ Last(log).key =
          <<"s", "w", "i", "s", "s", "_", "s", "t", "u", "f", "f", "e", "s">>
    /\ idx = 2

====
